---------------------------- MODULE Spec2Model ----------------------------
(***************************************************************************)
(* Model of scripts/redact_sensitive.py: the Luhn validator, the SSN and   *)
(* PAN matchers (Python `re` backtracking semantics), the two-pass         *)
(* redaction engine and the file loop of main.                             *)
(*                                                                         *)
(* A text is a sequence of one-character strings.  Positions are 1-based;  *)
(* a span [s, e) covers text[s] .. text[e-1].                              *)
(***************************************************************************)
EXTENDS Integers, Sequences, FiniteSets, TLC

(***************************************************************************)
(* Bounds of the model.                                                    *)
(***************************************************************************)
MaxPieces == 3
MaxEdits == 1
MaxFiles == 2

(***************************************************************************)
(* Character classes of the regular expressions (\d, [- ], \w).            *)
(***************************************************************************)
DigitChars == {"0", "1", "2", "3", "4", "5", "6", "7", "8", "9"}

SeparatorChars == {"-", " "}

WordChars == DigitChars \cup {"a", "_", "R", "E", "D", "A", "C", "T", "S", "N", "P"}

ord(ch) ==
    CASE ch = "0" -> 48 [] ch = "1" -> 49 [] ch = "2" -> 50 [] ch = "3" -> 51
      [] ch = "4" -> 52 [] ch = "5" -> 53 [] ch = "6" -> 54 [] ch = "7" -> 55
      [] ch = "8" -> 56 [] ch = "9" -> 57

SSN_TOKEN == <<"[", "R", "E", "D", "A", "C", "T", "E", "D", "_", "S", "S", "N", "]">>

PAN_TOKEN == <<"[", "R", "E", "D", "A", "C", "T", "E", "D", "_", "P", "A", "N", "]">>

PAN_MIN == 13

PAN_MAX == 19

(***************************************************************************)
(* luhn_is_valid: left-to-right pass, doubling the digits whose index has  *)
(* the parity of len(digits) % 2 (indices are 0-based in the source).      *)
(***************************************************************************)
RECURSIVE luhn_total(_, _, _)
luhn_total(digits, parity, i) ==
    IF i >= Len(digits) THEN 0
    ELSE LET d0 == ord(digits[i + 1]) - 48
             d1 == IF i % 2 = parity THEN 2 * d0 ELSE d0
             d  == IF i % 2 = parity /\ d1 > 9 THEN d1 - 9 ELSE d1
         IN  d + luhn_total(digits, parity, i + 1)

\* variant: the parity taken as 0 whatever the length
luhn_parity_always_even(digits) == 0

luhn_parity(digits) == Len(digits) % 2

luhn_is_valid(digits) == luhn_total(digits, luhn_parity(digits), 0) % 10 = 0

(***************************************************************************)
(* normalize_digits: re.sub(r"\D+", "", s).                                *)
(***************************************************************************)
IsDigitChar(ch) == ch \in DigitChars

normalize_digits(s) == SelectSeq(s, IsDigitChar)

(***************************************************************************)
(* Regular-expression primitives.                                          *)
(***************************************************************************)
IsWordAt(text, i) == i >= 1 /\ i <= Len(text) /\ text[i] \in WordChars

IsDigitAt(text, i) == i >= 1 /\ i <= Len(text) /\ text[i] \in DigitChars

IsSepAt(text, i) == i >= 1 /\ i <= Len(text) /\ text[i] \in SeparatorChars

\* \b at the gap before text[p]
WordBoundary(text, p) == IsWordAt(text, p - 1) # IsWordAt(text, p)

DigitsAt(text, p, n) == \A i \in p .. (p + n - 1) : IsDigitAt(text, i)

(***************************************************************************)
(* SSN_RE = \b(\d{3})[- ]?(\d{2})[- ]?(\d{4})\b                            *)
(* Each operator returns the end of the match (exclusive) or 0.  An        *)
(* optional separator is tried taken first, then skipped (backtracking).   *)
(***************************************************************************)
SSN_group3(text, q) ==
    IF DigitsAt(text, q, 4) /\ WordBoundary(text, q + 4) THEN q + 4 ELSE 0

SSN_sep2(text, q) ==
    LET taken == IF IsSepAt(text, q) THEN SSN_group3(text, q + 1) ELSE 0
    IN  IF taken # 0 THEN taken ELSE SSN_group3(text, q)

SSN_group2(text, q) ==
    IF DigitsAt(text, q, 2) THEN SSN_sep2(text, q + 2) ELSE 0

SSN_sep1(text, q) ==
    LET taken == IF IsSepAt(text, q) THEN SSN_group2(text, q + 1) ELSE 0
    IN  IF taken # 0 THEN taken ELSE SSN_group2(text, q)

\* variant: the pattern without its leading \b
SSN_RE_match_no_boundary(text, p) ==
    IF DigitsAt(text, p, 3) THEN SSN_sep1(text, p + 3) ELSE 0

SSN_RE_match(text, p) ==
    IF WordBoundary(text, p) /\ DigitsAt(text, p, 3) THEN SSN_sep1(text, p + 3) ELSE 0

(***************************************************************************)
(* PAN_CANDIDATE_RE = \b(?:\d[ -]?){13,19}\b                               *)
(* PAN_repeat(text, q, k): k repetitions are done and the cursor is at q.  *)
(* Greedy: one more repetition is tried first (separator taken, then       *)
(* skipped); only when that fails is the closing \b tried at q.            *)
(***************************************************************************)
RECURSIVE PAN_repeat(_, _, _)
PAN_repeat(text, q, k) ==
    LET more ==
            IF k < PAN_MAX /\ IsDigitAt(text, q)
            THEN LET taken == IF IsSepAt(text, q + 1)
                              THEN PAN_repeat(text, q + 2, k + 1) ELSE 0
                 IN  IF taken # 0 THEN taken ELSE PAN_repeat(text, q + 1, k + 1)
            ELSE 0
    IN  IF more # 0 THEN more
        ELSE IF k >= PAN_MIN /\ WordBoundary(text, q) THEN q
        ELSE 0

PAN_CANDIDATE_RE_match(text, p) ==
    IF WordBoundary(text, p) THEN PAN_repeat(text, p, 0) ELSE 0

(***************************************************************************)
(* The scan of re.sub / finditer: leftmost match at or after pos, then     *)
(* resume at the end of that match.                                        *)
(***************************************************************************)
RECURSIVE SSN_RE_finditer(_, _)
SSN_RE_finditer(text, pos) ==
    IF pos > Len(text) THEN << >>
    ELSE LET e == SSN_RE_match(text, pos)
         IN  IF e # 0 THEN <<[s |-> pos, e |-> e]>> \o SSN_RE_finditer(text, e)
             ELSE SSN_RE_finditer(text, pos + 1)

RECURSIVE PAN_CANDIDATE_RE_finditer(_, _)
PAN_CANDIDATE_RE_finditer(text, pos) ==
    IF pos > Len(text) THEN << >>
    ELSE LET e == PAN_CANDIDATE_RE_match(text, pos)
         IN  IF e # 0 THEN <<[s |-> pos, e |-> e]>> \o PAN_CANDIDATE_RE_finditer(text, e)
             ELSE PAN_CANDIDATE_RE_finditer(text, pos + 1)

\* re.sub: the text between the matches is copied, each match is replaced
\* by what the callback returned for it.
RECURSIVE re_sub(_, _, _, _, _)
re_sub(text, ms, repl, j, pos) ==
    IF j > Len(ms) THEN SubSeq(text, pos, Len(text))
    ELSE SubSeq(text, pos, ms[j].s - 1) \o repl[j] \o re_sub(text, ms, repl, j + 1, ms[j].e)

RECURSIVE SumSeq(_, _)
SumSeq(f, j) == IF j > Len(f) THEN 0 ELSE f[j] + SumSeq(f, j + 1)

(***************************************************************************)
(* redact_ssns, redact_pans, redact_text.                                  *)
(***************************************************************************)
\* variant: only the first match is substituted (re.sub with count=1)
redact_ssns_first_only(text) ==
    LET all  == SSN_RE_finditer(text, 1)
        ms   == IF all = << >> THEN all ELSE <<all[1]>>
        repl == [j \in 1 .. Len(ms) |-> SSN_TOKEN]
    IN  [text |-> re_sub(text, ms, repl, 1, 1), count |-> Len(ms)]

redact_ssns(text) ==
    LET ms   == SSN_RE_finditer(text, 1)
        repl == [j \in 1 .. Len(ms) |-> SSN_TOKEN]
    IN  [text |-> re_sub(text, ms, repl, 1, 1), count |-> Len(ms)]

\* variant: the callback without the Luhn gate
pan_sub_no_luhn(candidate) ==
    LET digits == normalize_digits(candidate)
    IN  IF ~(PAN_MIN <= Len(digits) /\ Len(digits) <= PAN_MAX)
        THEN [out |-> candidate, inc |-> 0]
        ELSE [out |-> PAN_TOKEN, inc |-> 1]

pan_sub(candidate) ==
    LET digits == normalize_digits(candidate)
    IN  IF ~(PAN_MIN <= Len(digits) /\ Len(digits) <= PAN_MAX)
        THEN [out |-> candidate, inc |-> 0]
        ELSE IF ~luhn_is_valid(digits)
        THEN [out |-> candidate, inc |-> 0]
        ELSE [out |-> PAN_TOKEN, inc |-> 1]

redact_pans(text) ==
    LET ms   == PAN_CANDIDATE_RE_finditer(text, 1)
        subs == [j \in 1 .. Len(ms) |-> pan_sub(SubSeq(text, ms[j].s, ms[j].e - 1))]
        repl == [j \in 1 .. Len(ms) |-> subs[j].out]
        incs == [j \in 1 .. Len(ms) |-> subs[j].inc]
    IN  [text |-> re_sub(text, ms, repl, 1, 1), count |-> SumSeq(incs, 1)]

\* variant: the PAN pass before the SSN pass
redact_text_pan_first(text, ds, dp) ==
    LET r1 == IF dp THEN redact_pans(text) ELSE [text |-> text, count |-> 0]
        r2 == IF ds THEN redact_ssns(r1.text) ELSE [text |-> r1.text, count |-> 0]
    IN  [mid |-> r1.text, text |-> r2.text,
         stats |-> [ssn_redactions |-> r2.count, pan_redactions |-> r1.count]]

\* redact_text; mid is the value of the local `text` between the two passes
redact_text(text, ds, dp) ==
    LET r1 == IF ds THEN redact_ssns(text) ELSE [text |-> text, count |-> 0]
        r2 == IF dp THEN redact_pans(r1.text) ELSE [text |-> r1.text, count |-> 0]
    IN  [mid |-> r1.text, text |-> r2.text,
         stats |-> [ssn_redactions |-> r1.count, pan_redactions |-> r2.count]]


(***************************************************************************)
(* State.                                                                  *)
(*   text, do_ssn, do_pan   the arguments of redact_text                   *)
(*   mid                    the local `text` after the SSN pass            *)
(*   redacted, stats        what redact_text returned                      *)
(*   redacted_again, stats_again   redact_text applied to `redacted`       *)
(*   digits, luhn_result    the argument and result of luhn_is_valid       *)
(*   m_pc                   where main is: "loop", "done" (returned), or   *)
(*                          "raised" (an exception left main)              *)
(*   out_dir                whether --output-dir was given                 *)
(*   total_ssn, total_pan, files_written   the locals of main              *)
(*   processed              one record per loop iteration so far           *)
(*   outputs                the files written: source iteration, content   *)
(*   summary, exit_status   what main printed and returned                 *)
(*   in_paths               the input roots, in argument order             *)
(*   root_idx, pending      the generator iter_files: roots consumed, and  *)
(*                          the files of the directory being walked that   *)
(*                          are still to be yielded                        *)
(*   enumerated             the path of each loop iteration so far         *)
(*   written_to             the out_path of each write_text, in order      *)
(***************************************************************************)
VARIABLES text, npieces, phase, do_ssn, do_pan, mid, redacted, stats,
          redacted_again, stats_again,
          digits, edits, luhn_checked, luhn_result,
          m_pc, out_dir, total_ssn, total_pan, files_written, processed, outputs,
          summary, exit_status,
          in_paths, root_idx, pending, enumerated, written_to

textVars == <<text, npieces, phase, do_ssn, do_pan, mid, redacted, stats,
              redacted_again, stats_again>>

luhnVars == <<digits, edits, luhn_checked, luhn_result>>

mainVars == <<m_pc, out_dir, total_ssn, total_pan, files_written, processed, outputs,
              summary, exit_status, in_paths, root_idx, pending, enumerated, written_to>>

vars == <<textVars, luhnVars, mainVars>>

NoStats == [ssn_redactions |-> 0, pan_redactions |-> 0]

TextIdle ==
    /\ text = << >> /\ npieces = 0 /\ phase = "idle"
    /\ do_ssn = TRUE /\ do_pan = TRUE
    /\ mid = << >> /\ redacted = << >> /\ stats = NoStats
    /\ redacted_again = << >> /\ stats_again = NoStats

LuhnIdle ==
    /\ digits = << >> /\ edits = 0 /\ luhn_checked = FALSE /\ luhn_result = FALSE

NoSummary == [printed |-> FALSE, files_written |-> 0, total_ssn |-> 0, total_pan |-> 0]

NoExit == -1

MainIdle ==
    /\ m_pc = "idle" /\ out_dir = FALSE
    /\ total_ssn = 0 /\ total_pan = 0 /\ files_written = 0
    /\ processed = << >> /\ outputs = {}
    /\ summary = NoSummary /\ exit_status = NoExit
    /\ in_paths = << >> /\ root_idx = 0 /\ pending = << >>
    /\ enumerated = << >> /\ written_to = << >>

(***************************************************************************)
(* Input texts: concatenations of at most MaxPieces pieces.                *)
(***************************************************************************)
PieceValidPan == <<"4", "1", "1", "1", "1", "1", "1", "1", "1", "1", "1", "1", "1", "1", "1", "1">>

PieceInvalid13 == <<"1", "2", "3", "4", "5", "6", "7", "8", "9", "0", "1", "2", "3">>

PieceSsnSeparated == <<"1", "2", "3", "-", "4", "5", " ", "6", "7", "8", "9">>

PieceSsnPlain == <<"1", "2", "3", "4", "5", "6", "7", "8", "9">>

PieceFour == <<"0", "0", "0", "3">>

Pieces == {PieceValidPan, PieceInvalid13, PieceSsnSeparated, PieceSsnPlain, PieceFour,
           <<" ">>, <<"a">>, <<":">>}

TextInit ==
    /\ text = << >> /\ npieces = 0 /\ phase = "build"
    /\ do_ssn = TRUE /\ do_pan = TRUE
    /\ mid = << >> /\ redacted = << >> /\ stats = NoStats
    /\ redacted_again = << >> /\ stats_again = NoStats
    /\ LuhnIdle
    /\ MainIdle

AppendPiece ==
    /\ phase = "build"
    /\ npieces < MaxPieces
    /\ \E p \in Pieces : text' = text \o p
    /\ npieces' = npieces + 1
    /\ UNCHANGED <<phase, do_ssn, do_pan, mid, redacted, stats, redacted_again, stats_again>>
    /\ UNCHANGED <<luhnVars, mainVars>>

\* redacted, stats = redact_text(text, do_ssn=..., do_pan=...)
RedactText ==
    /\ phase = "build"
    /\ \E ds \in BOOLEAN, dp \in BOOLEAN :
          LET r == redact_text(text, ds, dp)
          IN  /\ do_ssn' = ds
              /\ do_pan' = dp
              /\ mid' = r.mid
              /\ redacted' = r.text
              /\ stats' = r.stats
    /\ phase' = "redacted"
    /\ UNCHANGED <<text, npieces, redacted_again, stats_again>>
    /\ UNCHANGED <<luhnVars, mainVars>>

\* redact_text applied to its own output, same switches
RedactAgain ==
    /\ phase = "redacted"
    /\ LET r == redact_text(redacted, do_ssn, do_pan)
       IN  /\ redacted_again' = r.text
           /\ stats_again' = r.stats
    /\ phase' = "again"
    /\ UNCHANGED <<text, npieces, do_ssn, do_pan, mid, redacted, stats>>
    /\ UNCHANGED <<luhnVars, mainVars>>

TextNext == AppendPiece \/ RedactText \/ RedactAgain

SpecText == TextInit /\ [][TextNext]_vars

(***************************************************************************)
(* Inputs of luhn_is_valid: digit strings of every length PAN_MIN..PAN_MAX,*)
(* a prefix of 4111 1111 1111 1111 111 with at most MaxEdits digits        *)
(* overwritten.                                                            *)
(***************************************************************************)
LuhnBase == <<"4", "1", "1", "1", "1", "1", "1", "1", "1", "1", "1", "1", "1", "1", "1", "1", "1", "1", "1">>

LuhnInit ==
    /\ \E n \in PAN_MIN .. PAN_MAX : digits = SubSeq(LuhnBase, 1, n)
    /\ edits = 0 /\ luhn_checked = FALSE /\ luhn_result = FALSE
    /\ TextIdle
    /\ MainIdle

SetDigit ==
    /\ ~luhn_checked
    /\ edits < MaxEdits
    /\ \E i \in 1 .. Len(digits), d \in DigitChars :
          /\ digits[i] # d
          /\ digits' = [digits EXCEPT ![i] = d]
    /\ edits' = edits + 1
    /\ UNCHANGED <<luhn_checked, luhn_result>>
    /\ UNCHANGED <<textVars, mainVars>>

LuhnCheck ==
    /\ ~luhn_checked
    /\ luhn_result' = luhn_is_valid(digits)
    /\ luhn_checked' = TRUE
    /\ UNCHANGED <<digits, edits>>
    /\ UNCHANGED <<textVars, mainVars>>

LuhnNext == SetDigit \/ LuhnCheck

SpecLuhn == LuhnInit /\ [][LuhnNext]_vars


(***************************************************************************)
(* The file loop of main.  A file's bytes are a sequence whose elements    *)
(* are ASCII characters, "NUL" (the byte 0x00) or "xFF" (a byte that is    *)
(* not valid UTF-8).  Each iteration draws what the file system answers:   *)
(* is_file(), the suffix, whether read_bytes() raises OSError, the bytes,  *)
(* whether mkdir() and write_text() raise OSError.                         *)
(***************************************************************************)
NUL == "NUL"

BINARY_SUFFIXES == {".docx", ".pdf", ".png", ".jpg", ".jpeg", ".gif", ".webp"}

Suffixes == {".txt", ".pdf", ".PDF"}

suffix_lower(sfx) == IF sfx = ".PDF" THEN ".pdf" ELSE sfx

\* variant: only the first byte is examined
HasNulFirstByte(data) == Len(data) >= 1 /\ data[1] = NUL

\* b"\x00" in data
HasNulByte(data) == \E i \in 1 .. Len(data) : data[i] = NUL

\* data.decode("utf-8"), falling back to errors="replace": an invalid byte
\* becomes U+FFFD, ASCII bytes become their characters
decode(data) == [i \in 1 .. Len(data) |-> IF data[i] = "xFF" THEN "uFFFD" ELSE data[i]]

FileContents ==
    {<<"a">>,
     PieceSsnPlain,
     PieceSsnPlain \o <<NUL>>,
     <<NUL, "a">>,
     PieceInvalid13,
     PieceValidPan,
     <<"xFF", " ">> \o PieceSsnSeparated \o <<" ">> \o PieceValidPan}

(***************************************************************************)
(* Paths.  A path is [dir, name]: the directory components, and the file   *)
(* name split at its dots (<<"x", "txt">> is x.txt); a directory has the   *)
(* empty name.  Paths are absolute and free of symlinks, so resolve() is   *)
(* the identity on them.  The tree holds flat directories A and B; the     *)
(* output directory O is outside both.                                     *)
(***************************************************************************)
DirPath(d) == [dir |-> d, name |-> << >>]

FilePath(d, n) == [dir |-> d, name |-> n]

TreeFiles ==
    {FilePath(<<"A">>, <<"x", "txt">>),
     FilePath(<<"A">>, <<"x", "redacted", "txt">>),
     FilePath(<<"B">>, <<"x", "txt">>),
     FilePath(<<"B">>, <<"y", "PDF">>)}

OUT_DIR == DirPath(<<"O">>)

\* the argument lists of the runs
RootChoices ==
    {<<DirPath(<<"A">>)>>,
     <<DirPath(<<"B">>)>>,
     <<FilePath(<<"A">>, <<"x", "txt">>), FilePath(<<"B">>, <<"x", "txt">>)>>,
     <<FilePath(<<"A">>, <<"x", "txt">>), DirPath(<<"A">>)>>}

is_dir(p) == p.name = << >>

parent(p) == DirPath(p.dir)

\* p.suffix
path_suffix(p) ==
    IF Len(p.name) < 2 THEN ""
    ELSE LET ext == p.name[Len(p.name)]
         IN  CASE ext = "txt" -> ".txt" [] ext = "pdf" -> ".pdf" [] ext = "PDF" -> ".PDF"
               [] OTHER -> ".other"

\* p.with_name(p.stem + args.suffix + p.suffix), args.suffix = ".redacted"
with_suffix_inserted(p) ==
    [p EXCEPT !.name =
        IF Len(p.name) < 2 THEN p.name \o <<"redacted">>
        ELSE SubSeq(p.name, 1, Len(p.name) - 1) \o <<"redacted", p.name[Len(p.name)]>>]

IsUnder(p, base) ==
    /\ Len(base.dir) <= Len(p.dir)
    /\ SubSeq(p.dir, 1, Len(base.dir)) = base.dir

\* p.relative_to(base), defined when IsUnder(p, base)
relative_to(p, base) ==
    [dir |-> SubSeq(p.dir, Len(base.dir) + 1, Len(p.dir)), name |-> p.name]

\* the base of a root: the root itself, or its parent when it is a file
root_base(root) == IF is_dir(root) THEN root ELSE parent(root)

\* rel: relative to the first root whose base contains p, else p.name
rel_path(p) ==
    LET hits == {i \in 1 .. Len(in_paths) : IsUnder(p, root_base(in_paths[i]))}
    IN  IF hits = {} THEN [dir |-> << >>, name |-> p.name]
        ELSE LET first == CHOOSE i \in hits : \A k \in hits : i <= k
             IN  relative_to(p, root_base(in_paths[first]))

\* out_path of lines 161-180
out_path(p) ==
    IF out_dir
    THEN with_suffix_inserted([dir |-> OUT_DIR.dir \o rel_path(p).dir,
                               name |-> rel_path(p).name])
    ELSE with_suffix_inserted(p)

\* the files on disk: the tree and what this run has written
DiskFiles == TreeFiles \cup {written_to[k].path : k \in 1 .. Len(written_to)}

\* os.walk lists a directory when it reaches it, in no particular order
Listings(root) ==
    LET here == {f \in DiskFiles : f.dir = root.dir}
        n    == Cardinality(here)
    IN  {l \in [1 .. n -> here] : \A a, b \in 1 .. n : a # b => l[a] # l[b]}

\* what the generator may yield next: the file, followed by the rest of
\* the directory it comes from
NextYields ==
    IF pending # << >> THEN {pending}
    ELSE IF root_idx >= Len(in_paths) THEN {}
    ELSE LET root == in_paths[root_idx + 1]
         IN  IF is_dir(root) THEN Listings(root) ELSE {<<root>>}

\* text.encode("utf-8"): ASCII characters are their bytes; U+FFFD stands
\* for its own three-byte encoding, which decodes to U+FFFD again
encode(content) == [i \in 1 .. Len(content) |-> content[i]]

\* the bytes read_bytes() may return for p: what this run last wrote there,
\* or any content for a file the run has not written
BytesAt(p) ==
    LET ks == {k \in 1 .. Len(written_to) : written_to[k].path = p}
    IN  IF ks = {} THEN FileContents
        ELSE LET last == CHOOSE k \in ks : \A m \in ks : m <= k
             IN  {encode(o.content) : o \in {o \in outputs : o.src = written_to[last].src}}

Skipped(outcome) == [outcome |-> outcome, data |-> << >>, stats |-> NoStats]

MainInit ==
    /\ m_pc = "loop"
    /\ out_dir \in BOOLEAN
    /\ do_ssn \in BOOLEAN /\ do_pan \in BOOLEAN
    /\ total_ssn = 0 /\ total_pan = 0 /\ files_written = 0
    /\ processed = << >> /\ outputs = {}
    /\ summary = NoSummary /\ exit_status = NoExit
    /\ in_paths \in RootChoices
    /\ root_idx = 0 /\ pending = << >>
    /\ enumerated = << >> /\ written_to = << >>
    /\ text = << >> /\ npieces = 0 /\ phase = "idle"
    /\ mid = << >> /\ redacted = << >> /\ stats = NoStats
    /\ redacted_again = << >> /\ stats_again = NoStats
    /\ LuhnIdle

\* the iteration ends at a `continue`: nothing but the position changes
Continue(rec) ==
    /\ processed' = Append(processed, rec)
    /\ UNCHANGED <<m_pc, total_ssn, total_pan, files_written, outputs, summary, exit_status>>

\* an OSError from mkdir() or write_text() is not caught: it leaves main
Raise(rec) ==
    /\ processed' = Append(processed, rec)
    /\ total_ssn' = total_ssn + rec.stats.ssn_redactions
    /\ total_pan' = total_pan + rec.stats.pan_redactions
    /\ m_pc' = "raised"
    /\ exit_status' = 1
    /\ UNCHANGED <<files_written, outputs, summary>>

Write(rec, content) ==
    /\ processed' = Append(processed, rec)
    /\ total_ssn' = total_ssn + rec.stats.ssn_redactions
    /\ total_pan' = total_pan + rec.stats.pan_redactions
    /\ outputs' = outputs \cup {[src |-> Len(processed) + 1, content |-> content]}
    /\ files_written' = files_written + 1
    /\ UNCHANGED <<m_pc, summary, exit_status>>

\* one pass through the body of `for p in iter_files(in_paths)`
LoopBody(is_file, sfx, readable, data, mkdir_ok, write_ok) ==
    IF ~is_file THEN Continue(Skipped("not_file"))
    ELSE IF suffix_lower(sfx) \in BINARY_SUFFIXES THEN Continue(Skipped("denylisted"))
    ELSE IF ~readable THEN Continue(Skipped("read_error"))
    ELSE IF HasNulByte(data)
    THEN Continue([outcome |-> "binary", data |-> data, stats |-> NoStats])
    ELSE LET r == redact_text(decode(data), do_ssn, do_pan)
         IN  IF r.text = decode(data)
             THEN Continue([outcome |-> "unchanged", data |-> data, stats |-> r.stats])
             ELSE IF out_dir /\ ~mkdir_ok
             THEN Raise([outcome |-> "mkdir_error", data |-> data, stats |-> r.stats])
             ELSE IF ~write_ok
             THEN Raise([outcome |-> "write_error", data |-> data, stats |-> r.stats])
             ELSE Write([outcome |-> "written", data |-> data, stats |-> r.stats], r.text)

NextFile ==
    /\ m_pc = "loop"
    /\ Len(processed) < MaxFiles
    /\ \E yield \in NextYields :
          LET p == Head(yield)
          IN  /\ \E is_file \in BOOLEAN, sfx \in Suffixes \cap {path_suffix(p)},
                    readable \in BOOLEAN, data \in BytesAt(p),
                    mkdir_ok \in BOOLEAN, write_ok \in BOOLEAN :
                    LoopBody(is_file, sfx, readable, data, mkdir_ok, write_ok)
              /\ pending' = Tail(yield)
              /\ root_idx' = IF pending # << >> THEN root_idx ELSE root_idx + 1
              /\ enumerated' = Append(enumerated, p)
              /\ written_to' =
                    IF files_written' # files_written
                    THEN Append(written_to, [src |-> Len(processed) + 1, path |-> out_path(p)])
                    ELSE written_to
    /\ UNCHANGED <<out_dir, in_paths, textVars, luhnVars>>

\* the iterator is exhausted: print the summary, return 0
Finish ==
    /\ m_pc = "loop"
    /\ NextYields = {}
    /\ summary' = [printed |-> TRUE, files_written |-> files_written,
                   total_ssn |-> total_ssn, total_pan |-> total_pan]
    /\ exit_status' = 0
    /\ m_pc' = "done"
    /\ UNCHANGED <<out_dir, total_ssn, total_pan, files_written, processed, outputs>>
    /\ UNCHANGED <<in_paths, root_idx, pending, enumerated, written_to>>
    /\ UNCHANGED <<textVars, luhnVars>>

MainNext == NextFile \/ Finish

SpecMain == MainInit /\ [][MainNext]_vars

(***************************************************************************)
(* Vocabulary of the properties.                                           *)
(***************************************************************************)
Redacted == phase \in {"redacted", "again"}

DecimalDigits == <<"0", "1", "2", "3", "4", "5", "6", "7", "8", "9">>

DecimalValue(ch) == (CHOOSE n \in 1 .. 10 : DecimalDigits[n] = ch) - 1

\* The standard Luhn sum: j counts leftwards from the rightmost digit (j = 0);
\* every second digit, starting with the one next to the rightmost, is doubled.
RECURSIVE StandardLuhnSum(_, _)
StandardLuhnSum(d, j) ==
    IF j >= Len(d) THEN 0
    ELSE LET v == DecimalValue(d[Len(d) - j])
             w == IF j % 2 = 1 THEN (IF 2 * v > 9 THEN 2 * v - 9 ELSE 2 * v) ELSE v
         IN  w + StandardLuhnSum(d, j + 1)

StandardLuhnValid(d) == StandardLuhnSum(d, 0) % 10 = 0

\* Spans are pairs <<s, e>>, covering positions s .. e-1.
SpanSet(ms) == {<<ms[j].s, ms[j].e>> : j \in 1 .. Len(ms)}

Covers(x, i) == x[1] <= i /\ i < x[2]

RECURSIVE GrowthOf(_, _)
GrowthOf(S, tokenLen) ==
    IF S = {} THEN 0
    ELSE LET x == CHOOSE y \in S : TRUE
         IN  (tokenLen - (x[2] - x[1])) + GrowthOf(S \ {x}, tokenLen)

\* how far position i of the input has moved in the output
ShiftAt(S, tokenLen, i) == GrowthOf({x \in S : x[2] <= i}, tokenLen)

\* out is t with exactly the spans of S replaced by token, all else unchanged
ReplacedExactly(t, out, S, token) ==
    /\ Len(out) = Len(t) + GrowthOf(S, Len(token))
    /\ \A x \in S :
          LET o == x[1] + ShiftAt(S, Len(token), x[1])
          IN  /\ o >= 1
              /\ o + Len(token) - 1 <= Len(out)
              /\ SubSeq(out, o, o + Len(token) - 1) = token
    /\ \A i \in 1 .. Len(t) :
          (~\E x \in S : Covers(x, i)) =>
              LET o == i + ShiftAt(S, Len(token), i)
              IN  o >= 1 /\ o <= Len(out) /\ out[o] = t[i]

\* The SSN shape read off the text: ddd [sep] dd [sep] dddd, no word
\* character directly before or after.
IsSsnSpan(t, s, e) ==
    \E h1 \in {0, 1}, h2 \in {0, 1} :
        /\ e = s + 9 + h1 + h2
        /\ DigitsAt(t, s, 3)
        /\ h1 = 1 => IsSepAt(t, s + 3)
        /\ DigitsAt(t, s + 3 + h1, 2)
        /\ h2 = 1 => IsSepAt(t, s + 5 + h1)
        /\ DigitsAt(t, s + 5 + h1 + h2, 4)
        /\ ~IsWordAt(t, s - 1)
        /\ ~IsWordAt(t, e)

SsnSpans(t) ==
    {x \in UNION {{<<s, s + 9>>, <<s, s + 10>>, <<s, s + 11>>} : s \in 1 .. Len(t)} :
        IsSsnSpan(t, x[1], x[2])}

TokenStarts(t, token) ==
    {i \in 1 .. Len(t) : i + Len(token) - 1 <= Len(t)
                         /\ SubSeq(t, i, i + Len(token) - 1) = token}

PanCandidates(t) == SpanSet(PAN_CANDIDATE_RE_finditer(t, 1))

PanAccepted(t) ==
    {x \in PanCandidates(t) :
        LET d == normalize_digits(SubSeq(t, x[1], x[2] - 1))
        IN  PAN_MIN <= Len(d) /\ Len(d) <= PAN_MAX /\ luhn_is_valid(d)}

(***************************************************************************)
(* C1: for digit strings of length 13..19, luhn_is_valid returns what the  *)
(* standard Luhn algorithm (doubling every second digit counting leftwards *)
(* from the one next to the rightmost) returns, for even and odd lengths.  *)
(***************************************************************************)
C1_LuhnAgreesWithStandard ==
    luhn_checked =>
        /\ Len(digits) \in PAN_MIN .. PAN_MAX
        /\ luhn_result = StandardLuhnValid(digits)

\* an odd-length string accepted, after one digit of the base was overwritten
C1_Witness ==
    /\ luhn_checked /\ luhn_result
    /\ Len(digits) % 2 = 1
    /\ edits = 1

(***************************************************************************)
(* C2: the SSN pass replaces every SSN-shaped, word-bounded span by        *)
(* [REDACTED_SSN] and nothing else, the ssn count is the number of those   *)
(* spans, and no such span remains in the text after the pass.             *)
(***************************************************************************)
C2_SsnPassReplacesEverySpan ==
    (Redacted /\ do_ssn) =>
        /\ ReplacedExactly(text, mid, SsnSpans(text), SSN_TOKEN)
        /\ stats.ssn_redactions = Cardinality(SsnSpans(text))
        /\ SsnSpans(mid) = {}

\* two SSN spans in one text, one with both separators and one with none
C2_Witness ==
    /\ Redacted /\ do_ssn
    /\ stats.ssn_redactions = 2
    /\ \E x \in SsnSpans(text) : x[2] - x[1] = 11
    /\ \E x \in SsnSpans(text) : x[2] - x[1] = 9

(***************************************************************************)
(* C3: the PAN pass replaces a candidate by [REDACTED_PAN] iff its         *)
(* normalized digits number 13..19 and pass the Luhn check; every other    *)
(* character, rejected candidates included, is output as it was, and the   *)
(* pan count is the number of candidates replaced.                         *)
(***************************************************************************)
C3_PanReplacedIffLuhnValid ==
    (Redacted /\ do_pan) =>
        /\ ReplacedExactly(mid, redacted, PanAccepted(mid), PAN_TOKEN)
        /\ stats.pan_redactions = Cardinality(PanAccepted(mid))
        /\ \A x \in PanCandidates(mid) \ PanAccepted(mid) :
              LET o == x[1] + ShiftAt(PanAccepted(mid), Len(PAN_TOKEN), x[1])
              IN  SubSeq(redacted, o, o + (x[2] - x[1]) - 1) = SubSeq(mid, x[1], x[2] - 1)

\* one candidate rejected and one replaced in the same text
C3_Witness ==
    /\ Redacted /\ do_pan
    /\ PanAccepted(mid) # {}
    /\ PanCandidates(mid) \ PanAccepted(mid) # {}

\* what redact_text would return with the two passes in the other order
PanPassFirst(t) == redact_ssns(redact_pans(t).text).text

\* the PAN pass alone would replace a candidate that overlaps an SSN span
SsnInsidePan(t) ==
    \E x \in PanAccepted(t), y \in SsnSpans(t) : x[1] < y[2] /\ y[1] < x[2]

(***************************************************************************)
(* C4: with both categories enabled the SSN pass runs on the original text *)
(* and the PAN pass on its output: every SSN span becomes [REDACTED_SSN]   *)
(* and is counted as an SSN, no PAN candidate touches an inserted token,   *)
(* and whenever the PAN pass alone would replace a candidate overlapping   *)
(* an SSN span, running the PAN pass first gives a different output.       *)
(***************************************************************************)
C4_SsnPassBeforePanPass ==
    (Redacted /\ do_ssn /\ do_pan) =>
        /\ ReplacedExactly(text, mid, SsnSpans(text), SSN_TOKEN)
        /\ stats.ssn_redactions = Cardinality(SsnSpans(text))
        /\ Cardinality(TokenStarts(redacted, SSN_TOKEN)) = Cardinality(SsnSpans(text))
        /\ \A x \in PanCandidates(mid), i \in TokenStarts(mid, SSN_TOKEN) :
              x[2] <= i \/ i + Len(SSN_TOKEN) <= x[1]
        /\ SsnInsidePan(text) => PanPassFirst(text) # redacted

\* an SSN span that, joined with the digits after it, is a Luhn-valid PAN candidate
C4_Witness ==
    /\ Redacted /\ do_ssn /\ do_pan
    /\ SsnInsidePan(text)
    /\ stats.ssn_redactions = 1
    /\ stats.pan_redactions = 0

(***************************************************************************)
(* C6: redact_text applied to its own output, with the same switches,      *)
(* returns that output unchanged and counts no redaction.                  *)
(***************************************************************************)
C6_RedactionIdempotent ==
    phase = "again" =>
        /\ redacted_again = redacted
        /\ stats_again = NoStats

\* a rejected PAN candidate left standing directly before an inserted token
C6_Witness ==
    /\ phase = "again"
    /\ stats.pan_redactions = 1
    /\ PanCandidates(redacted) # {}
    /\ \E x \in PanCandidates(redacted) : x[2] + 1 \in TokenStarts(redacted, PAN_TOKEN)


(***************************************************************************)
(* Digit runs: maximal stretches of digits joined by single separators.    *)
(***************************************************************************)
InRun(t, i) ==
    \/ IsDigitAt(t, i)
    \/ IsSepAt(t, i) /\ IsDigitAt(t, i - 1) /\ IsDigitAt(t, i + 1)

\* the span x starts or ends strictly inside a digit run
CutsRun(t, x) ==
    \/ InRun(t, x[1] - 1) /\ InRun(t, x[1])
    \/ InRun(t, x[2] - 1) /\ InRun(t, x[2])

(***************************************************************************)
(* C5: the PAN candidates of one scan are pairwise disjoint, and each      *)
(* covers whole digit runs: a run is evaluated once as one maximal         *)
(* candidate, never as a shorter sub-span; a lone Luhn-valid 16-digit run  *)
(* gives exactly one [REDACTED_PAN] and pan = 1.                           *)
(***************************************************************************)
C5_CandidatesAreWholeRuns ==
    (Redacted /\ do_pan) =>
        /\ \A x \in PanCandidates(mid), y \in PanCandidates(mid) :
              x # y => (x[2] <= y[1] \/ y[2] <= x[1])
        /\ \A x \in PanCandidates(mid) : ~CutsRun(mid, x)
        /\ mid = PieceValidPan =>
              (redacted = PAN_TOKEN /\ stats.pan_redactions = 1)

\* the replaced candidate without a separator at its end
NumberOf(t, x) == IF IsSepAt(t, x[2] - 1) THEN <<x[1], x[2] - 1>> ELSE x

(***************************************************************************)
(* C10: every span the PAN pass replaces begins and ends with a digit, so  *)
(* the output is the input with exactly the numbers replaced: a separator  *)
(* directly after a redacted number is still there.                        *)
(***************************************************************************)
C10_ReplacedSpansAreNumbers ==
    (Redacted /\ do_pan) =>
        /\ \A x \in PanAccepted(mid) : IsDigitAt(mid, x[1]) /\ IsDigitAt(mid, x[2] - 1)
        /\ ReplacedExactly(mid, redacted, {NumberOf(mid, x) : x \in PanAccepted(mid)},
                           PAN_TOKEN)


(***************************************************************************)
(* Vocabulary of the file-loop properties.                                 *)
(***************************************************************************)
Iterations == 1 .. Len(processed)

ContainsNul(data) == NUL \in {data[i] : i \in 1 .. Len(data)}

\* the iteration reached redact_text
WasRedacted(j) ==
    processed[j].outcome \in {"unchanged", "written", "mkdir_error", "write_error"}

\* the redacted text of iteration j differs from its decoded text
Changed(j) ==
    /\ WasRedacted(j)
    /\ redact_text(decode(processed[j].data), do_ssn, do_pan).text
           # decode(processed[j].data)

HasOutput(j) == \E o \in outputs : o.src = j

RECURSIVE SumOver(_, _)
SumOver(J, field) ==
    IF J = {} THEN 0
    ELSE LET j == CHOOSE k \in J : TRUE
         IN  processed[j].stats[field] + SumOver(J \ {j}, field)

(***************************************************************************)
(* C7: a file whose bytes contain a NUL byte anywhere is never decoded,    *)
(* redacted or written: no output exists for it, and files_written and the *)
(* SSN/PAN totals are what the other files alone account for, even when    *)
(* the rest of its content holds a valid SSN.                              *)
(***************************************************************************)
C7_NulFileIsSkipped ==
    LET others == {j \in Iterations : ~ContainsNul(processed[j].data)}
    IN  /\ \A j \in Iterations :
              ContainsNul(processed[j].data) =>
                  /\ processed[j].outcome = "binary"
                  /\ processed[j].stats = NoStats
                  /\ ~HasOutput(j)
        /\ files_written = Cardinality({j \in others : HasOutput(j)})
        /\ total_ssn = SumOver({j \in others : Changed(j)}, "ssn_redactions")
        /\ total_pan = SumOver({j \in others : Changed(j)}, "pan_redactions")

\* SSN redaction is on and a file that is an SSN followed by a NUL byte went by
C7_Witness ==
    /\ do_ssn
    /\ \E j \in Iterations :
          /\ processed[j].data = PieceSsnPlain \o <<NUL>>
          /\ processed[j].outcome = "binary"
    /\ m_pc = "done"

(***************************************************************************)
(* C8: files_written is the number of files whose redacted text differs    *)
(* from their decoded text; a file is one of those exactly when it had a   *)
(* replacement; a file without identifiers gets no output and adds 0; the  *)
(* run totals are the sums of the per-file counts over the written files.  *)
(***************************************************************************)
C8_WrittenFilesAndTotals ==
    /\ files_written = Cardinality({j \in Iterations : Changed(j)})
    /\ \A j \in Iterations :
          WasRedacted(j) =>
              (Changed(j) <=> processed[j].stats.ssn_redactions
                                + processed[j].stats.pan_redactions > 0)
    /\ \A j \in Iterations : ~Changed(j) => ~HasOutput(j)
    /\ total_ssn = SumOver({j \in Iterations : HasOutput(j)}, "ssn_redactions")
    /\ total_pan = SumOver({j \in Iterations : HasOutput(j)}, "pan_redactions")

(***************************************************************************)
(* C9: no per-file access error (read, mkdir, write) is fatal: main never  *)
(* ends by an exception, and it ends by printing the summary and           *)
(* returning 0.                                                            *)
(***************************************************************************)
C9_NoAccessErrorIsFatal ==
    /\ m_pc # "raised"
    /\ exit_status \in {NoExit, 0}
    /\ m_pc = "done" => (summary.printed /\ exit_status = 0)


(***************************************************************************)
(* C11: within one run, the path a file's output is written to differs     *)
(* from the path of every enumerated input file and from the output path   *)
(* of every other file, with or without an output directory; so            *)
(* files_written is the number of distinct redacted files left on disk.    *)
(***************************************************************************)
C11_OutputPathsDistinct ==
    LET W == 1 .. Len(written_to)
    IN  /\ \A k \in W, j \in Iterations : written_to[k].path # enumerated[j]
        /\ \A k \in W, m \in W : k # m => written_to[k].path # written_to[m].path
        /\ files_written = Cardinality({written_to[k].path : k \in W})

=============================================================================
